---- MODULE Spec2Model ----
(***************************************************************************)
(* Model of the recursive research orchestrator deepResearch               *)
(* (deep-research.ts, kept as src/unnamed/part_000).                       *)
(*                                                                         *)
(* A call of deepResearch is named by its path in the recursion tree: the  *)
(* root call is <<>>, and the call made by branch i of call p is           *)
(* Append(p, i).  The branch itself carries the same name Append(p, i).    *)
(* One action is one event-loop turn: the completion of an external call   *)
(* (planner, search, distiller) followed by everything the code runs       *)
(* before it awaits the next external call, promise settlement included.   *)
(***************************************************************************)
EXTENDS Integers, Sequences, FiniteSets, TLC

MaxBreadth == 3
MaxDepth == 3
MaxEnvConcurrency == 1
MaxPlanned == 4
MaxTotalQueries == 4

DefaultConcurrencyLimit == 2

DefaultNumLearnings == 4

VARIABLES concurrencyEnv, calls, branches, searches, http, trim, split, merge,
          limiter

vars == <<concurrencyEnv, calls, branches, searches, http, trim, split, merge,
         limiter>>

\* no HTTP request is being handled / trimPrompt is not being evaluated
HttpIdle == [pc |-> "idle"]

TrimIdle == [pc |-> "idle"]

\* no splitter is being constructed or run / mergeSplits is not being evaluated
SplitIdle == [pc |-> "idle"]

MergeIdle == [pc |-> "idle"]

\* no rate limiter has been constructed
LimiterIdle == [pc |-> "idle"]

----------------------------------------------------------------------------
(* Values exchanged with the external collaborators.                       *)

Min(a, b) == IF a < b THEN a ELSE b

\* One item of CustomSearchResponse.results; "" is a missing or empty field.
Item(u, c, b, t) == [url |-> u, content |-> c, body |-> b, title |-> t]

\* a response with contents (one item without URL), a response whose items
\* have no content, body or title, and a response without results
SearchResponses ==
    { <<Item("u1", "text", "body", "title"), Item("", "", "body", "")>>,
      <<Item("u2", "", "", ""), Item("u1", "", "", "")>>,
      <<>> }

\* A learning is the sequence of the fragments of its text.  The language
\* model is asked for a maximum number of items and answers with any number.
LlmDistillations ==
    { [learnings |-> <<<<"L1">>>>, followUpQuestions |-> <<<<"f1">>, <<"f2">>>>],
      [learnings |-> <<<<"L2">>, <<"L1">>>>, followUpQuestions |-> <<>>] }

Query1 == [query |-> "q1", researchGoal |-> "g1"]
Query2 == [query |-> "q2", researchGoal |-> "g2"]

\* the lists the language model may answer the planner with: distinct
\* queries, or the same query repeated
LlmQueryLists ==
    { [i \in 1..n |-> IF i % 2 = 1 THEN Query1 ELSE Query2] : n \in 0..MaxPlanned }
        \cup { [i \in 1..n |-> Query1] : n \in 2..MaxPlanned }

\* the size of the largest recursion tree of a call with this breadth and
\* depth: b branches per call, and below each of them, while more than one
\* level remains, a call with half the breadth (rounded up)
RECURSIVE MaxSearches(_, _)
MaxSearches(breadth, depth) ==
    IF depth > 1
    THEN breadth * (1 + MaxSearches((breadth + 1) \div 2, depth - 1))
    ELSE breadth

InputArguments ==
    { [learnings |-> <<>>, visitedUrls |-> <<>>],
      [learnings |-> <<<<"L1">>>>, visitedUrls |-> <<"u1">>] }

EmptyResult == [learnings |-> <<>>, visitedUrls |-> <<>>]

----------------------------------------------------------------------------
(* Pure helpers of the orchestrator.                                       *)

\* Number(process.env.CUSTOM_API_CONCURRENCY) || 2
ConcurrencyLimit ==
    IF concurrencyEnv = 0 THEN DefaultConcurrencyLimit ELSE concurrencyEnv

SliceAll(s, n) == s

\* Array.prototype.slice(0, n) for n >= 0
Slice(s, n) == SubSeq(s, 1, Min(Len(s), n))

\* lodash compact over strings: drops the falsy (empty) ones
Compact(s) == SelectSeq(s, LAMBDA x : x /= "")

RECURSIVE Flatten(_)
Flatten(ss) == IF ss = <<>> THEN <<>> ELSE Head(ss) \o Flatten(Tail(ss))

Range(s) == { s[i] : i \in 1..Len(s) }

DedupNothing(s) == s

\* [...new Set(s)]: the first occurrence of every value, in order
RECURSIVE Dedup(_)
Dedup(s) ==
    IF s = <<>> THEN <<>>
    ELSE LET front == Dedup(SubSeq(s, 1, Len(s) - 1))
             last  == s[Len(s)]
         IN  IF last \in Range(front) THEN front ELSE Append(front, last)

NewBreadthFloor(breadth) == breadth \div 2

NewBreadthSame(breadth) == breadth

\* Math.ceil(breadth / 2)
NewBreadth(breadth) == (breadth + 1) \div 2

NewDepth(depth) == depth - 1

RecursesAtZero(newDepth) == newDepth >= 0

\* newDepth > 0
Recurses(newDepth) == newDepth > 0

NewUrlsWithEmpty(response) == [i \in 1..Len(response) |-> response[i].url]

\* compact(result.results.map(item => item.url))
NewUrls(response) == Compact([i \in 1..Len(response) |-> response[i].url])

\* item.content || item.body || item.title
ExtractContent(item) ==
    IF item.content /= "" THEN item.content
    ELSE IF item.body /= "" THEN item.body
    ELSE item.title

\* compact(result.results.map(item => item.content || item.body || item.title))
Contents(response) == Compact([i \in 1..Len(response) |-> ExtractContent(response[i])])

\* title || body ? `${title}\n${body}\nSource: ${url}` : null
FallbackText(item) == <<item.title, "\n", item.body, "\nSource: ", item.url>>

\* the fallback contents: the synthesized strings of the items that have a
\* title or a body
FallbackContents(response) ==
    LET kept == SelectSeq(response, LAMBDA item : item.title /= "" \/ item.body /= "")
    IN  [i \in 1..Len(kept) |-> FallbackText(kept[i])]

\* contents.length === 0 after the fallback, which is tried when there are
\* results and no contents
NoContents(response) ==
    /\ Contents(response) = <<>>
    /\ Len(response) > 0 => FallbackContents(response) = <<>>

SentinelEmpty(query) == [learnings |-> <<>>, followUpQuestions |-> <<>>]

\* the answer of processSerpResult when there are no contents
Sentinel(query) ==
    [learnings |-> << <<"Unable to extract content for query: ", query>> >>,
     followUpQuestions |-> << <<"Retry search with different keywords for: ", query>> >>]

\* the query of the recursive call
NextQuery(serpQuery, followUpQuestions) ==
    [researchGoal |-> serpQuery.researchGoal, followUpQuestions |-> followUpQuestions]

Parent(p) == SubSeq(p, 1, Len(p) - 1)

BranchesOf(st, p) ==
    { b \in DOMAIN st.branches : Len(b) = Len(p) + 1 /\ Parent(b) = p }

Queued(st, p) == { b \in BranchesOf(st, p) : st.branches[b].state = "queued" }

\* the order of serpQueries.map: results of the branches by index
ResultsOf(st, p) ==
    [i \in 1..Cardinality(BranchesOf(st, p)) |-> st.branches[Append(p, i)].value]

\* the final aggregation of one call
Aggregate(results) ==
    [learnings   |-> Dedup(Flatten([i \in 1..Len(results) |-> results[i].learnings])),
     visitedUrls |-> Dedup(Flatten([i \in 1..Len(results) |-> results[i].visitedUrls]))]

----------------------------------------------------------------------------
(* The limiter of one call and the settlement of promises.  A state of the *)
(* orchestration is handled as a record st = [calls, branches, searches].  *)

Undefined == "undefined"

\* the progress object of a call and the initial record of the call
NewCall(query, breadth, depth, learnings, visitedUrls) ==
    [query |-> query, breadth |-> breadth, depth |-> depth,
     learnings |-> learnings, visitedUrls |-> visitedUrls,
     state |-> "planning", serpQueries |-> <<>>, result |-> EmptyResult,
     progress |-> [currentDepth |-> depth, totalDepth |-> depth,
                   currentBreadth |-> breadth, totalBreadth |-> breadth,
                   currentQuery |-> Undefined,
                   totalQueries |-> 0, completedQueries |-> 0]]

\* a branch and the locals of its closure: result is the search response,
\* searched whether the search has returned it,
\* newLearnings what processSerpResult returned, caught whether the catch
\* block ran, value what the branch's promise is fulfilled with
NoDistillation == [learnings |-> <<>>, followUpQuestions |-> <<>>]

NewBranch(serpQuery) ==
    [state |-> "queued", serpQuery |-> serpQuery, searched |-> FALSE,
     result |-> <<>>, newUrls |-> <<>>,
     numFollowUpQuestions |-> 0, newLearnings |-> NoDistillation,
     caught |-> FALSE, value |-> EmptyResult]

\* a branch that holds a slot of its call's limiter
InFlightStates == {"search", "distill", "recurse"}

InFlight(st, p) ==
    { b \in BranchesOf(st, p) : st.branches[b].state \in InFlightStates }

LastQueued(st, p) ==
    CHOOSE b \in Queued(st, p) : \A x \in Queued(st, p) : b[Len(b)] >= x[Len(x)]

\* the head of the limiter's queue: the waiting branch submitted first
FirstQueued(st, p) ==
    CHOOSE b \in Queued(st, p) : \A x \in Queued(st, p) : b[Len(b)] <= x[Len(x)]

SlotNeverFree(st, p) == FALSE

\* a queued branch may start when fewer than the limit hold a slot
SlotFree(st, p) == Cardinality(InFlight(st, p)) < ConcurrencyLimit

\* the limiter starts queued branches, in submission order, while a slot is
\* free; a started branch runs up to its search request
RECURSIVE Admit(_, _)
Admit(st, p) ==
    IF Queued(st, p) /= {} /\ SlotFree(st, p)
    THEN Admit([st EXCEPT !.branches[FirstQueued(st, p)].state = "search",
                          !.searches = @ + 1], p)
    ELSE st

AllFulfilled(st, p) ==
    \A b \in BranchesOf(st, p) : st.branches[b].state = "fulfilled"

\* `return deepResearch(...)` hands the child's promise over without awaiting
\* it inside the try block: the branch settles as the child call settles
AdoptsChildFailure(ok) == ok

\* SettleBranch: the promise of branch b settles; its slot is released, and
\* Promise.all of the parent call rejects on the first rejection or resolves
\* when every branch is fulfilled.
\* SettleCall: the call p returns (ok) or throws; the branch that made the
\* call adopts the outcome.
RECURSIVE SettleBranch(_, _, _, _), SettleCall(_, _, _, _)
SettleBranch(st, b, ok, value) ==
    LET p  == Parent(b)
        s1 == [st EXCEPT !.branches[b].state = IF ok THEN "fulfilled" ELSE "rejected",
                         !.branches[b].value = value]
        s2 == Admit(s1, p)
    IN  IF s2.calls[p].state /= "running" THEN s2
        ELSE IF ~ok THEN SettleCall(s2, p, FALSE, EmptyResult)
        ELSE IF AllFulfilled(s2, p)
             THEN SettleCall(s2, p, TRUE, Aggregate(ResultsOf(s2, p)))
             ELSE s2

SettleCall(st, p, ok, result) ==
    LET s1 == [st EXCEPT !.calls[p].state = IF ok THEN "resolved" ELSE "rejected",
                         !.calls[p].result = result]
    IN  IF p = <<>> THEN s1
        ELSE IF AdoptsChildFailure(ok)
             THEN SettleBranch(s1, p, TRUE, result)
             ELSE SettleBranch(s1, p, FALSE, EmptyResult)

BranchCatchRethrows(st, b) ==
    SettleBranch([st EXCEPT !.branches[b].caught = TRUE], b, FALSE, EmptyResult)

\* the catch block of a branch: the branch returns the empty result
BranchCatch(st, b) ==
    SettleBranch([st EXCEPT !.branches[b].caught = TRUE], b, TRUE, EmptyResult)

CompletedReset(progress) == 1

\* progress.completedQueries + 1
NextCompleted(progress) == progress.completedQueries + 1

ReportProgressDropsUpdate(progress, update) == progress

\* Object.assign(progress, update)
ReportProgress(progress, update) ==
    [k \in DOMAIN progress |-> IF k \in DOMAIN update THEN update[k] ELSE progress[k]]

\* the branch after processSerpResult has returned res
AfterDistill(st0, b, res) ==
    LET p            == Parent(b)
        st           == [st0 EXCEPT !.branches[b].newLearnings = res]
        c            == st.calls[p]
        br           == st.branches[b]
        newBreadth   == NewBreadth(c.breadth)
        newDepth     == NewDepth(c.depth)
        allLearnings == c.learnings \o res.learnings
        allUrls      == c.visitedUrls \o br.newUrls
    IN  IF Recurses(newDepth)
        THEN LET s1 == [st EXCEPT
                          !.calls[p].progress = ReportProgress(@,
                              [currentDepth |-> newDepth, currentBreadth |-> newBreadth,
                               completedQueries |-> NextCompleted(@),
                               currentQuery |-> br.serpQuery.query]),
                          !.branches[b].state = "recurse"]
             IN  [s1 EXCEPT !.calls = @ @@
                     (b :> NewCall(NextQuery(br.serpQuery, res.followUpQuestions),
                                   newBreadth, newDepth, allLearnings, allUrls))]
        ELSE SettleBranch(
                 [st EXCEPT !.calls[p].progress = ReportProgress(@,
                                [currentDepth |-> 0,
                                 completedQueries |-> NextCompleted(@),
                                 currentQuery |-> br.serpQuery.query])],
                 b, TRUE, [learnings |-> allLearnings, visitedUrls |-> allUrls])

----------------------------------------------------------------------------
(* The state machine.                                                      *)

Cur == [calls |-> calls, branches |-> branches, searches |-> searches]

Becomes(st) ==
    /\ calls' = st.calls
    /\ branches' = st.branches
    /\ searches' = st.searches
    /\ UNCHANGED <<concurrencyEnv, http, trim, split, merge, limiter>>

Init ==
    /\ concurrencyEnv \in 0..MaxEnvConcurrency
    /\ \E breadth \in 1..MaxBreadth, depth \in 0..MaxDepth, args \in InputArguments :
          /\ MaxSearches(breadth, depth) <= MaxTotalQueries
          /\ calls = (<<>> :> NewCall([researchGoal |-> "topic", followUpQuestions |-> <<>>],
                                         breadth, depth, args.learnings, args.visitedUrls))
    /\ branches = <<>>
    /\ searches = 0
    /\ http = HttpIdle
    /\ trim = TrimIdle
    /\ split = SplitIdle
    /\ merge = MergeIdle
    /\ limiter = LimiterIdle

Planning == { p \in DOMAIN calls : calls[p].state = "planning" }

BranchesIn(state) == { b \in DOMAIN branches : branches[b].state = state }

\* generateSerpQueries returns: the call reports progress, creates its
\* limiter and submits one branch per query
PlannerReturns(p, llmQueries) ==
    /\ p \in Planning
    /\ LET serpQueries == Slice(llmQueries, calls[p].breadth)
           n  == Len(serpQueries)
           s1 == [Cur EXCEPT
                     !.calls[p].state = "running",
                     !.calls[p].serpQueries = serpQueries,
                     !.calls[p].progress = ReportProgress(@,
                         [totalQueries |-> n,
                          currentQuery |-> IF n = 0 THEN Undefined ELSE serpQueries[1].query]),
                     !.branches = @ @@ [b \in { Append(p, i) : i \in 1..n } |->
                                           NewBranch(serpQueries[b[Len(b)]])]]
       IN  Becomes(IF n = 0 THEN SettleCall(s1, p, TRUE, Aggregate(<<>>))
                   ELSE Admit(s1, p))

\* generateSerpQueries throws: outside of any try block, the call throws
PlannerFails(p) ==
    /\ p \in Planning
    /\ Becomes(SettleCall(Cur, p, FALSE, EmptyResult))

\* customSearchAPI.search returns: the branch collects the URLs and calls
\* processSerpResult, which answers at once with the sentinel when there is
\* no content and calls the language model otherwise
SearchReturns(b, response) ==
    /\ b \in BranchesIn("search")
    /\ LET newBreadth == NewBreadth(calls[Parent(b)].breadth)
           s1 == [Cur EXCEPT !.branches[b].searched = TRUE,
                             !.branches[b].result = response,
                             !.branches[b].newUrls = NewUrls(response),
                             !.branches[b].numFollowUpQuestions = newBreadth]
       IN  Becomes(IF NoContents(response)
                   THEN AfterDistill(s1, b, Sentinel(branches[b].serpQuery.query))
                   ELSE [s1 EXCEPT !.branches[b].state = "distill"])

\* customSearchAPI.search throws
SearchFails(b) ==
    /\ b \in BranchesIn("search")
    /\ Becomes(BranchCatch(Cur, b))

\* the language-model call of processSerpResult returns
DistillReturns(b, res) ==
    /\ b \in BranchesIn("distill")
    /\ Becomes(AfterDistill(Cur, b, res))

\* the language-model call of processSerpResult fails or exceeds its timeout
DistillFails(b) ==
    /\ b \in BranchesIn("distill")
    /\ Becomes(BranchCatch(Cur, b))

Next ==
    \/ \E p \in DOMAIN calls, q \in LlmQueryLists : PlannerReturns(p, q)
    \/ \E p \in DOMAIN calls : PlannerFails(p)
    \/ \E b \in DOMAIN branches, r \in SearchResponses : SearchReturns(b, r)
    \/ \E b \in DOMAIN branches : SearchFails(b)
    \/ \E b \in DOMAIN branches, r \in LlmDistillations : DistillReturns(b, r)
    \/ \E b \in DOMAIN branches : DistillFails(b)

Spec == Init /\ [][Next]_vars

----------------------------------------------------------------------------
(* The orchestrator with a progress callback that may throw.  The providers *)
(* do not fail here, so that every failure comes from the callback.         *)

\* reportProgress at the planning step: Object.assign has updated the
\* progress, then onProgress throws outside of any try block, before the
\* limiter and the branches exist, and the call throws
PlannerReturnsSinkThrows(p, llmQueries) ==
    /\ p \in Planning
    /\ LET serpQueries == Slice(llmQueries, calls[p].breadth)
           n  == Len(serpQueries)
           s1 == [Cur EXCEPT
                     !.calls[p].serpQueries = serpQueries,
                     !.calls[p].progress = ReportProgress(@,
                         [totalQueries |-> n,
                          currentQuery |-> IF n = 0 THEN Undefined ELSE serpQueries[1].query])]
       IN  Becomes(SettleCall(s1, p, FALSE, EmptyResult))

\* reportProgress of a branch after processSerpResult has returned res:
\* Object.assign has updated the progress, then onProgress throws inside the
\* try block of the branch, whose catch block returns the empty result
AfterDistillSinkThrows(st0, b, res) ==
    LET p  == Parent(b)
        st == [st0 EXCEPT !.branches[b].newLearnings = res]
        c  == st.calls[p]
        br == st.branches[b]
        update == IF Recurses(NewDepth(c.depth))
                  THEN [currentDepth |-> NewDepth(c.depth),
                        currentBreadth |-> NewBreadth(c.breadth),
                        completedQueries |-> NextCompleted(c.progress),
                        currentQuery |-> br.serpQuery.query]
                  ELSE [currentDepth |-> 0,
                        completedQueries |-> NextCompleted(c.progress),
                        currentQuery |-> br.serpQuery.query]
    IN  BranchCatch([st EXCEPT !.calls[p].progress = ReportProgress(@, update)], b)

\* the search returns nothing usable, processSerpResult answers with the
\* sentinel in the same turn, and onProgress throws
SearchReturnsSinkThrows(b, response) ==
    /\ b \in BranchesIn("search")
    /\ NoContents(response)
    /\ LET s1 == [Cur EXCEPT !.branches[b].searched = TRUE,
                             !.branches[b].result = response,
                             !.branches[b].newUrls = NewUrls(response),
                             !.branches[b].numFollowUpQuestions =
                                 NewBreadth(calls[Parent(b)].breadth)]
       IN  Becomes(AfterDistillSinkThrows(s1, b, Sentinel(branches[b].serpQuery.query)))

\* the language-model call of processSerpResult returns and onProgress throws
DistillReturnsSinkThrows(b, res) ==
    /\ b \in BranchesIn("distill")
    /\ Becomes(AfterDistillSinkThrows(Cur, b, res))

NextSink ==
    \/ \E p \in DOMAIN calls, q \in LlmQueryLists : PlannerReturns(p, q)
    \/ \E b \in DOMAIN branches, r \in SearchResponses : SearchReturns(b, r)
    \/ \E b \in DOMAIN branches, r \in LlmDistillations : DistillReturns(b, r)
    \/ \E p \in DOMAIN calls, q \in LlmQueryLists : PlannerReturnsSinkThrows(p, q)
    \/ \E b \in DOMAIN branches, r \in SearchResponses : SearchReturnsSinkThrows(b, r)
    \/ \E b \in DOMAIN branches, r \in LlmDistillations : DistillReturnsSinkThrows(b, r)

SpecSink == Init /\ [][NextSink]_vars

----------------------------------------------------------------------------
(* Properties of the orchestrator.                                         *)

Calls == DOMAIN calls

ChildCalls == Calls \ { <<>> }

Siblings(p) == BranchesOf(Cur, p)

Settled(p) == calls[p].state \in {"resolved", "rejected"}

\* C1: when the recursive call made by a branch fails, the branch catches the
\* failure and yields the empty result, and the parent call does not throw.
C1_ChildFailureCaught ==
    \A b \in ChildCalls :
        calls[b].state = "rejected" =>
            /\ branches[b].state = "fulfilled"
            /\ branches[b].value = EmptyResult
            /\ calls[Parent(b)].state /= "rejected"

\* C2: a branch whose search or distillation failed contributes the empty
\* result; its call does not throw on that account (a call that threw has a
\* branch whose recursive call threw), returns as soon as every branch is
\* fulfilled, and its result contains the learnings and URLs of every branch.
C2_BranchIsolation ==
    \A p \in Calls : \A b \in Siblings(p) :
        branches[b].caught =>
            /\ branches[b].state = "fulfilled"
            /\ branches[b].value = EmptyResult
            /\ calls[p].state = "rejected" =>
                   \E x \in Siblings(p) : branches[x].state = "rejected"
            /\ AllFulfilled(Cur, p) => calls[p].state = "resolved"
            /\ calls[p].state = "resolved" =>
                   \A x \in Siblings(p) :
                       /\ Range(branches[x].value.learnings) \subseteq
                              Range(calls[p].result.learnings)
                       /\ Range(branches[x].value.visitedUrls) \subseteq
                              Range(calls[p].result.visitedUrls)

C2_Witness ==
    \E p \in Calls : \E b, x \in Siblings(p) :
        /\ calls[p].state = "resolved"
        /\ branches[b].caught
        /\ ~branches[x].caught
        /\ branches[x].value.learnings /= <<>>
        /\ branches[x].value.visitedUrls /= <<>>
        /\ calls[p].result.learnings /= <<>>

\* C3: the top-level call never throws, whatever fails inside the tree.
C3_RootNeverThrows == calls[<<>>].state /= "rejected"

\* C4: over all levels together, at most ConcurrencyLimit branches are
\* admitted by a limiter and not yet returned.
C4_GlobalInFlightBound ==
    Cardinality({ b \in DOMAIN branches : branches[b].state \in InFlightStates })
        <= ConcurrencyLimit

\* C5: a recursive call at level k of a call with depth d has depth d - k >= 1;
\* a call with depth 0 makes no recursive call and at most one search per
\* planned query.
C5_DepthTermination ==
    \A p \in Calls :
        /\ p /= <<>> =>
              /\ calls[p].depth >= 1
              /\ calls[p].depth = calls[<<>>].depth - Len(p)
        /\ calls[p].depth = 0 =>
              /\ Siblings(p) \cap Calls = {}
              /\ searches <= Len(calls[p].serpQueries)

C5_Witness ==
    \E p \in ChildCalls :
        /\ Len(p) = 2
        /\ calls[p].depth = 1
        /\ calls[p].state = "resolved"
        /\ calls[p].result.learnings /= <<>>

\* C6: a child call has breadth ceil(b/2) >= 1 for the breadth b of its
\* parent, and the distiller is asked for that many follow-up questions.
IsCeilHalf(c, b) == 2 * c >= b /\ 2 * c <= b + 1

C6_BreadthDecay ==
    /\ \A p \in ChildCalls :
          /\ calls[p].breadth >= 1
          /\ IsCeilHalf(calls[p].breadth, calls[Parent(p)].breadth)
          /\ branches[p].numFollowUpQuestions = calls[p].breadth
    /\ \A b \in DOMAIN branches :
          branches[b].state \in {"distill", "recurse"} =>
              IsCeilHalf(branches[b].numFollowUpQuestions, calls[Parent(b)].breadth)

C6_Witness ==
    \E p \in ChildCalls :
        /\ calls[Parent(p)].breadth = 2
        /\ calls[p].breadth = 1
        /\ calls[p].state = "running"

\* C7 as stated: the breadth of every child call is strictly smaller than the
\* breadth of its parent.
C7_StrictlyDecreasing ==
    \A p \in ChildCalls : calls[p].breadth < calls[Parent(p)].breadth

\* C7 amended: the breadth of a child call never exceeds its parent's; it is
\* strictly smaller when the parent's breadth is at least 2, and stays 1 when
\* the parent's breadth is 1.
C7_NonIncreasing ==
    \A p \in ChildCalls :
        LET b == calls[Parent(p)].breadth
            c == calls[p].breadth
        IN  /\ c <= b
            /\ b >= 2 => c < b
            /\ b = 1 => c = 1

C7_Witness ==
    \E p \in ChildCalls :
        /\ calls[Parent(p)].breadth = 1
        /\ calls[p].breadth = 1
        /\ Len(p) = 2

\* C8 as stated: the searches of one session number at most about 2 * b,
\* whatever the depth.
C8_TwiceBreadth == searches <= 2 * calls[<<>>].breadth

\* C8 amended: the searches of one session number at most
\* b0 + b0*b1 + ... + b0*b1*...*b(d-1), with b0 = b and b(k+1) = ceil(bk / 2)
\* (b alone when d <= 1), a bound that grows with the depth.
C8_TreeBound ==
    searches <= MaxSearches(calls[<<>>].breadth, calls[<<>>].depth)

C8_Witness ==
    /\ searches = MaxSearches(calls[<<>>].breadth, calls[<<>>].depth)
    /\ searches > 2 * calls[<<>>].breadth
    /\ calls[<<>>].state = "resolved"

\* C9: in the result of every call each learning and each URL occurs once.
NoDuplicates(s) == \A i, j \in 1..Len(s) : s[i] = s[j] => i = j

C9_ResultDeduplicated ==
    \A p \in Calls :
        calls[p].state = "resolved" =>
            /\ NoDuplicates(calls[p].result.learnings)
            /\ NoDuplicates(calls[p].result.visitedUrls)

C9_Witness ==
    \E p \in Calls : \E b, x \in Siblings(p) :
        /\ calls[p].state = "resolved"
        /\ b /= x
        /\ "u1" \in Range(branches[b].newUrls) \cap Range(branches[x].newUrls)
        /\ "u1" \in Range(calls[p].visitedUrls)
        /\ <<"L1">> \in Range(branches[b].newLearnings.learnings)
                           \cap Range(branches[x].newLearnings.learnings)
        /\ "u1" \in Range(calls[p].result.visitedUrls)
        /\ <<"L1">> \in Range(calls[p].result.learnings)

\* C10: a call that does not recurse, planned at least one query and had no
\* failing branch returns exactly the set of its input learnings and the
\* learnings distilled by its branches, and the set of its input URLs and the
\* non-empty URLs of every search response.
ResponseUrls(b) ==
    { branches[b].result[i].url : i \in 1..Len(branches[b].result) } \ { "" }

C10_LeafCallResult ==
    \A p \in Calls :
        (/\ calls[p].state = "resolved"
         /\ calls[p].depth <= 1
         /\ Len(calls[p].serpQueries) >= 1
         /\ \A b \in Siblings(p) : ~branches[b].caught) =>
            /\ Range(calls[p].result.learnings) =
                   Range(calls[p].learnings) \cup
                   UNION { Range(branches[b].newLearnings.learnings) : b \in Siblings(p) }
            /\ Range(calls[p].result.visitedUrls) =
                   Range(calls[p].visitedUrls) \cup
                   UNION { ResponseUrls(b) : b \in Siblings(p) }
            /\ NoDuplicates(calls[p].result.learnings)
            /\ NoDuplicates(calls[p].result.visitedUrls)

C10_Witness ==
    \E p \in Calls :
        /\ calls[p].state = "resolved"
        /\ calls[p].depth = 1
        /\ Len(calls[p].serpQueries) = 2
        /\ calls[p].visitedUrls /= <<>>
        /\ \A b \in Siblings(p) : ~branches[b].caught
        /\ \E b \in Siblings(p) :
               \E i \in 1..Len(branches[b].result) : branches[b].result[i].url = ""
        /\ \E b \in Siblings(p) : "u2" \in ResponseUrls(b)

\* C11: within one call the limiter starts the branches in submission order
\* (no branch has left the queue while a branch submitted before it waits),
\* and no branch waits while a slot of the limiter is free.
Index(b) == b[Len(b)]

C11_SubmissionOrder ==
    \A p \in Calls :
        /\ \A b, x \in Siblings(p) :
               (Index(b) < Index(x) /\ branches[x].state /= "queued") =>
                   branches[b].state /= "queued"
        /\ Queued(Cur, p) /= {} => Cardinality(InFlight(Cur, p)) >= ConcurrencyLimit

C11_Witness ==
    \E p \in Calls :
        /\ Cardinality(Siblings(p)) = 3
        /\ ConcurrencyLimit = 2
        /\ branches[Append(p, 1)].state = "distill"
        /\ branches[Append(p, 2)].state = "fulfilled"
        /\ branches[Append(p, 3)].state = "search"

\* C12: a branch whose search response has no item with content, body or
\* title (or has no item) gets exactly the sentinel distillation without a
\* language-model call; the branch does not end in its catch block and goes
\* on: it recurses with the sentinel merged while depth remains, and returns
\* it otherwise.
NoExtractableContent(response) ==
    \A i \in 1..Len(response) :
        response[i].content = "" /\ response[i].body = "" /\ response[i].title = ""

C12_SentinelOnNoContent ==
    \A b \in DOMAIN branches :
        (branches[b].searched /\ NoExtractableContent(branches[b].result)) =>
            LET br       == branches[b]
                c        == calls[Parent(b)]
                learning == <<"Unable to extract content for query: ", br.serpQuery.query>>
                question == <<"Retry search with different keywords for: ", br.serpQuery.query>>
            IN  /\ br.state \in {"recurse", "fulfilled", "rejected"}
                /\ ~br.caught
                /\ br.newLearnings =
                       [learnings |-> <<learning>>, followUpQuestions |-> <<question>>]
                /\ c.depth > 1 =>
                       /\ b \in Calls
                       /\ calls[b].learnings = Append(c.learnings, learning)
                       /\ calls[b].visitedUrls = c.visitedUrls \o br.newUrls
                       /\ calls[b].query.followUpQuestions = <<question>>
                /\ c.depth <= 1 =>
                       /\ br.state = "fulfilled"
                       /\ br.value.learnings = Append(c.learnings, learning)

C12_Witness ==
    \E b, x \in ChildCalls :
        /\ Parent(b) = Parent(x)
        /\ branches[b].result = <<>>
        /\ branches[b].searched
        /\ branches[x].result /= <<>>
        /\ NoExtractableContent(branches[x].result)
        /\ calls[b].state = "planning"
        /\ calls[x].state = "resolved"

\* C13: what processSerpResult returned to a branch has at most numLearnings
\* (4) learnings and at most numFollowUpQuestions follow-up questions.
C13_DistillationBounded ==
    \A b \in DOMAIN branches :
        /\ Len(branches[b].newLearnings.learnings) <= DefaultNumLearnings
        /\ Len(branches[b].newLearnings.followUpQuestions)
               <= branches[b].numFollowUpQuestions

\* C14: the queries of one call are at most breadth many and no two of them
\* have the same search string.
C14_PlannedQueriesDistinct ==
    \A p \in Calls :
        LET q == calls[p].serpQueries
        IN  /\ Len(q) <= calls[p].breadth
            /\ \A i, j \in 1..Len(q) : q[i].query = q[j].query => i = j

\* C15: in every step the completedQueries of every call grows by the number
\* of its branches that completed search and distillation in that step (one
\* per branch), and so never decreases.
CompletesDistillation(b) ==
    /\ branches[b].state \in {"search", "distill"}
    /\ \/ branches'[b].state = "recurse"
       \/ branches'[b].state = "fulfilled" /\ ~branches'[b].caught

C15_CompletedMonotonic ==
    [][\A p \in Calls :
          LET before == calls[p].progress.completedQueries
              after  == calls'[p].progress.completedQueries
          IN  /\ after >= before
              /\ after = before +
                     Cardinality({ b \in Siblings(p) : CompletesDistillation(b) })]_vars

C15_Witness ==
    \E p \in Calls :
        /\ calls[p].progress.completedQueries = 2
        /\ calls[p].progress.totalQueries = 3
        /\ \E b \in Siblings(p) : branches[b].state = "distill"

\* C16: an exception thrown by the progress callback does not interrupt the
\* research: no call throws, and every branch whose search and distillation
\* succeeded still contributes (no branch ends in its catch block, so its
\* learnings and URLs are not replaced by the empty result).
C16_SinkExceptionHarmless ==
    /\ \A p \in Calls : calls[p].state /= "rejected"
    /\ \A b \in DOMAIN branches : ~branches[b].caught

\* C32: the result of every call that returns contains every learning and
\* every URL that was passed in to the call.
C32_InputsPreserved ==
    \A p \in Calls :
        calls[p].state = "resolved" =>
            /\ Range(calls[p].learnings) \subseteq Range(calls[p].result.learnings)
            /\ Range(calls[p].visitedUrls) \subseteq Range(calls[p].result.visitedUrls)

Finished(b) == branches[b].state \in {"fulfilled", "rejected"}

\* the search of the branch has returned and processSerpResult has answered
Distilled(b) == branches[b].searched /\ branches[b].newLearnings /= NoDistillation

\* C33: in the progress of every call completedQueries is between 0 and
\* totalQueries, and once all the branches of a call have finished it is the
\* number of the branches whose search and distillation succeeded.
C33_CompletedCountsSuccesses ==
    \A p \in Calls :
        /\ calls[p].progress.completedQueries >= 0
        /\ calls[p].progress.completedQueries <= calls[p].progress.totalQueries
        /\ (\A b \in Siblings(p) : Finished(b)) =>
               calls[p].progress.completedQueries =
                   Cardinality({ b \in Siblings(p) : Distilled(b) })

C33_Witness ==
    \E p \in Calls :
        /\ Cardinality(Siblings(p)) = 3
        /\ \A b \in Siblings(p) : Finished(b)
        /\ \E b \in Siblings(p) : branches[b].caught /\ branches[b].searched
        /\ \E b \in Siblings(p) : branches[b].caught /\ ~branches[b].searched
        /\ calls[p].progress.completedQueries = 1
        /\ calls[p].progress.totalQueries = 3

AllReturned ==
    /\ \A p \in Calls : calls[p].state \in {"resolved", "rejected"}
    /\ \A b \in DOMAIN branches : Finished(b)

\* a planner, search or distillation request is pending
Pending ==
    \/ \E p \in Calls : calls[p].state = "planning"
    \/ \E b \in DOMAIN branches : branches[b].state \in {"search", "distill"}

\* the largest number of requests a call of this breadth and depth can still
\* make: its planner request and, for every branch, a search, a distillation
\* and the recursive call
RECURSIVE CallWork(_, _)
CallWork(breadth, depth) ==
    1 + breadth * (2 + IF Recurses(NewDepth(depth))
                       THEN CallWork(NewBreadth(breadth), NewDepth(depth))
                       ELSE 0)

BranchWork(b) ==
    LET c     == calls[Parent(b)]
        below == IF Recurses(NewDepth(c.depth))
                 THEN CallWork(NewBreadth(c.breadth), NewDepth(c.depth))
                 ELSE 0
    IN  CASE branches[b].state \in {"queued", "search"} -> 2 + below
          [] branches[b].state = "distill" -> 1 + below
          [] OTHER -> 0

RECURSIVE WorkOfCalls(_), WorkOfBranches(_)
WorkOfCalls(ps) ==
    IF ps = {} THEN 0
    ELSE LET p == CHOOSE x \in ps : TRUE
         IN  (IF calls[p].state = "planning"
              THEN CallWork(calls[p].breadth, calls[p].depth) ELSE 0)
             + WorkOfCalls(ps \ {p})

WorkOfBranches(bs) ==
    IF bs = {} THEN 0
    ELSE LET b == CHOOSE x \in bs : TRUE
         IN  BranchWork(b) + WorkOfBranches(bs \ {b})

Work == WorkOfCalls(Calls) + WorkOfBranches(DOMAIN branches)

\* C31: while a call has not returned or a branch has not finished, a
\* planner, search or distillation request is pending (no deadlock), a branch
\* waits for a slot only while as many branches of its call as the limit
\* allows hold one, and every return or failure of a request lowers the
\* number of requests that can still be made, which is never negative; so
\* when every request returns or fails, every call returns.
C31_EveryCallReturns ==
    [][/\ Work' < Work
       /\ Work' >= 0
       /\ (~AllReturned => Pending)'
       /\ (\A p \in Calls : \A b \in Siblings(p) :
               branches[b].state = "queued" =>
                   Cardinality({ x \in Siblings(p) :
                                    branches[x].state \in {"search", "distill", "recurse"} })
                       = ConcurrencyLimit)']_vars

\* a branch waits for a slot of its call while a branch of that call holds
\* one for its recursive call, whose own branches wait and run
C31_Witness ==
    \E p \in Calls : \E b, x \in Siblings(p) :
        /\ branches[b].state = "queued"
        /\ branches[x].state = "recurse"
        /\ x \in Calls
        /\ \E y \in Siblings(x) : branches[y].state \in {"search", "distill"}

\* C24: a branch whose search returned results from which no contents are
\* extracted does not get the sentinel from processSerpResult: the
\* synthesized fallback strings of its items are distilled instead.
C24_FallbackDistilled ==
    \A b \in DOMAIN branches :
        (/\ branches[b].searched
         /\ Len(branches[b].result) > 0
         /\ Contents(branches[b].result) = <<>>)
        => /\ FallbackContents(branches[b].result) /= <<>>
           /\ branches[b].newLearnings /= Sentinel(branches[b].serpQuery.query)

----------------------------------------------------------------------------
(* The HTTP layer: POST /api/research and POST /api/generate-report.        *)

\* longest whitespace prefix or suffix of a submitted query
MaxPadding == 1

MaxQueryChars == 5000
MinDepthAllowed == 1
MaxDepthAllowed == 10
MinBreadthAllowed == 1
MaxBreadthAllowed == 20
DefaultDepth == 3
DefaultBreadth == 3

\* JSON values of a request body.  A string is kept as the lengths of its
\* leading whitespace, of its remainder up to the trailing whitespace, and of
\* its trailing whitespace; a number as an integer or as that integer plus
\* one half.
Absent == [kind |-> "undefined"]

Str(lead, core, trail) == [kind |-> "string", lead |-> lead, core |-> core, trail |-> trail]

Num(v) == [kind |-> "number", integer |-> TRUE, value |-> v]

Frac(v) == [kind |-> "number", integer |-> FALSE, value |-> v]

StrLength(x) == x.lead + x.core + x.trail

\* String.prototype.trim
StrTrim(x) == Str(0, x.core, 0)

QueryInputs ==
    {Absent, Num(1)} \cup
    { Str(l, c, t) : l \in 0..MaxPadding, t \in 0..MaxPadding,
                     c \in {0, 1, MaxQueryChars - 1, MaxQueryChars, MaxQueryChars + 1} }

NumberInputs(lo, hi) ==
    {Absent, Str(0, 1, 0), Frac(lo)} \cup { Num(v) : v \in {lo - 1, lo, hi, hi + 1} }

Bodies ==
    [query : QueryInputs,
     depth : NumberInputs(MinDepthAllowed, MaxDepthAllowed),
     breadth : NumberInputs(MinBreadthAllowed, MaxBreadthAllowed)]

Endpoints == {"/api/research", "/api/generate-report"}

ParseFailure == [ok |-> FALSE]

ParseSuccess(v) == [ok |-> TRUE, value |-> v]

\* z.string().min(1).max(5000).trim(): the checks run in the order of the
\* chain, so both length checks see the string as submitted, and the value
\* handed on is the trimmed string
ParseQuery(x) ==
    IF x.kind /= "string" THEN ParseFailure
    ELSE IF StrLength(x) < 1 \/ StrLength(x) > MaxQueryChars THEN ParseFailure
    ELSE ParseSuccess(StrTrim(x))

\* z.number().int().min(lo).max(hi).default(d)
ParseNumber(x, lo, hi, d) ==
    IF x = Absent THEN ParseSuccess(Num(d))
    ELSE IF x.kind /= "number" THEN ParseFailure
    ELSE IF ~x.integer \/ x.value < lo \/ x.value > hi THEN ParseFailure
    ELSE ParseSuccess(x)

\* ResearchRequestSchema.parse(req.body)
ParseRequest(body) ==
    LET q == ParseQuery(body.query)
        d == ParseNumber(body.depth, MinDepthAllowed, MaxDepthAllowed, DefaultDepth)
        b == ParseNumber(body.breadth, MinBreadthAllowed, MaxBreadthAllowed, DefaultBreadth)
    IN  IF q.ok /\ d.ok /\ b.ok
        THEN ParseSuccess([query |-> q.value, depth |-> d.value, breadth |-> b.value])
        ELSE ParseFailure

\* Errors: a name and a message, the message kept as a sequence of phrases
ZodError == [name |-> "ZodError", message |-> <<"Invalid input">>]

ResearchTimeout == [name |-> "Error", message |-> <<"Research operation ", "timed out">>]

ReportTimeout == [name |-> "Error", message |-> <<"Report generation ", "timed out">>]

\* what deepResearch or writeFinalReport may throw before the deadline: a
\* provider's failure, whose message is the provider's
ProviderErrors ==
    { [name |-> "Error", message |-> <<"Custom Search API error: 500">>],
      [name |-> "Error", message |-> <<"Failed after 3 attempts. Last error: Request ", "timed out", ".">>] }

\* message.includes(phrase)
Includes(message, phrase) == \E i \in 1..Len(message) : message[i] = phrase

\* the catch block of a handler
Classify(error) ==
    IF error.name = "ZodError" THEN [status |-> 400, code |-> "VALIDATION_ERROR"]
    ELSE IF Includes(error.message, "timed out") THEN [status |-> 408, code |-> "TIMEOUT_ERROR"]
    ELSE [status |-> 500, code |-> "RESEARCH_ERROR"]

Success == [status |-> 200, code |-> "OK"]

NewRequest(endpoint, body) ==
    [pc |-> "received", endpoint |-> endpoint, body |-> body, args |-> Absent,
     researched |-> FALSE, timerFired |-> FALSE, response |-> Absent]

InitHttp ==
    /\ concurrencyEnv = 0
    /\ calls = <<>>
    /\ branches = <<>>
    /\ searches = 0
    /\ trim = TrimIdle
    /\ split = SplitIdle
    /\ merge = MergeIdle
    /\ limiter = LimiterIdle
    /\ \E e \in Endpoints, body \in Bodies : http = NewRequest(e, body)

HttpBecomes(h) ==
    /\ http' = h
    /\ UNCHANGED <<concurrencyEnv, calls, branches, searches, trim, split, merge, limiter>>

Respond(response) == HttpBecomes([http EXCEPT !.pc = "responded", !.response = response])

\* the handler validates the body and, when it is valid, starts the research
\* timer and calls deepResearch
ReceiveRequest ==
    /\ http.pc = "received"
    /\ LET parsed == ParseRequest(http.body)
       IN  IF parsed.ok
           THEN HttpBecomes([http EXCEPT !.pc = "research", !.args = parsed.value])
           ELSE Respond(Classify(ZodError))

\* deepResearch returns before the research timer fires: the handler starts
\* the report timer and calls writeFinalReport
ResearchReturns ==
    /\ http.pc = "research"
    /\ HttpBecomes([http EXCEPT !.pc = "report", !.researched = TRUE])

\* deepResearch throws before the research timer fires
ResearchThrows(error) ==
    /\ http.pc = "research"
    /\ Respond(Classify(error))

\* the research timer fires first
ResearchTimerFires ==
    /\ http.pc = "research"
    /\ HttpBecomes([http EXCEPT !.pc = "responded", !.timerFired = TRUE,
                                !.response = Classify(ResearchTimeout)])

\* writeFinalReport returns before the report timer fires
ReportReturns ==
    /\ http.pc = "report"
    /\ Respond(Success)

\* writeFinalReport throws before the report timer fires
ReportThrows(error) ==
    /\ http.pc = "report"
    /\ Respond(Classify(error))

\* the report timer fires first
ReportTimerFires ==
    /\ http.pc = "report"
    /\ HttpBecomes([http EXCEPT !.pc = "responded", !.timerFired = TRUE,
                                !.response = Classify(ReportTimeout)])

NextHttp ==
    \/ ReceiveRequest
    \/ ResearchReturns
    \/ \E e \in ProviderErrors : ResearchThrows(e)
    \/ ResearchTimerFires
    \/ ReportReturns
    \/ \E e \in ProviderErrors : ReportThrows(e)
    \/ ReportTimerFires

HttpSpec == InitHttp /\ [][NextHttp]_vars

\* C17: deepResearch is invoked only with a non-empty query of at most 5000
\* characters, an integer depth in 1..10 and an integer breadth in 1..20, and
\* a request that is answered with a validation error never started it.
C17_OnlyValidatedRequests ==
    /\ http.args /= Absent =>
          /\ http.args.query.kind = "string"
          /\ StrLength(http.args.query) >= 1
          /\ StrLength(http.args.query) <= MaxQueryChars
          /\ http.args.depth.integer
          /\ http.args.depth.value \in MinDepthAllowed..MaxDepthAllowed
          /\ http.args.breadth.integer
          /\ http.args.breadth.value \in MinBreadthAllowed..MaxBreadthAllowed
    /\ (http.pc = "responded" /\ http.response.code = "VALIDATION_ERROR") =>
          http.args = Absent

\* C18: a request whose research or report timer fired is answered with the
\* timeout error (status 408, code TIMEOUT_ERROR), and a request answered with
\* the timeout error is one whose timer fired.
C18_TimeoutDistinguishable ==
    http.pc = "responded" =>
        /\ http.timerFired =>
              /\ http.response.status = 408
              /\ http.response.code = "TIMEOUT_ERROR"
        /\ http.response.code = "TIMEOUT_ERROR" => http.timerFired

----------------------------------------------------------------------------
(* The text splitter and trimPrompt.  A text is a sequence of characters;   *)
(* "NL" stands for the newline character.                                   *)

\* texts have TextStep * k characters, budgets ContextStep * k tokens
TextStep == 25
MaxTextSteps == 9
ContextStep == 20
MaxContextSteps == 3
MaxCharsPerToken == 4

MinChunkSize == 140

\* text[((i - 1) mod |unit|) + 1]: the unit repeated up to length n
Cycle(unit, n) == [i \in 1..n |-> unit[((i - 1) % Len(unit)) + 1]]

\* a run of letters, single-letter words, sentences, lines, blanks, words after
\* a leading blank
TextUnits ==
    { <<"a">>, <<"a", " ">>, <<"a", "b", ".", " ">>, <<"a", "b", "c", "NL", "NL">>, <<" ">>,
      <<" ", "a", "b">> }

TextLengths ==
    { TextStep * k : k \in 0..MaxTextSteps } \cup
    { MinChunkSize - 1, MinChunkSize, MinChunkSize + 1 }

Texts == { Cycle(u, n) : u \in TextUnits, n \in TextLengths }

ContextSizes == { ContextStep * k : k \in 1..MaxContextSteps }

\* encoder.encode(text).length for an encoder that puts r characters in a token
TokenCount(text, r) == (Len(text) + r - 1) \div r

Whitespace == {" ", "NL"}

TrimNothing(text) == text

\* String.prototype.trim
Trim(text) ==
    LET kept == { i \in 1..Len(text) : text[i] \notin Whitespace }
    IN  IF kept = {} THEN <<>>
        ELSE SubSeq(text, CHOOSE i \in kept : \A j \in kept : i <= j,
                          CHOOSE i \in kept : \A j \in kept : i >= j)

StartsAt(text, s, i) ==
    /\ i + Len(s) - 1 <= Len(text)
    /\ \A k \in 1..Len(s) : text[i + k - 1] = s[k]

\* text.includes(s)
TextIncludes(text, s) == \E i \in 1..Len(text) : StartsAt(text, s, i)

Minimum(S) == CHOOSE x \in S : \A y \in S : x <= y

\* the elements of a set of numbers in increasing order
Ascending(S) ==
    LET rank == [x \in S |-> Cardinality({ y \in S : y < x }) + 1]
    IN  [j \in 1..Cardinality(S) |-> CHOOSE x \in S : rank[x] = j]

\* the number of positions right before i at which s occurs without a gap
RunBefore(text, s, i) ==
    LET gaps == { j \in 1..(i - 1) : ~StartsAt(text, s, j) }
    IN  IF gaps = {} THEN i - 1
        ELSE i - 1 - (CHOOSE j \in gaps : \A k \in gaps : j >= k)

\* the positions at which text.split(s) cuts: the occurrences of s taken from
\* left to right without overlap (s has one or two characters: an occurrence
\* is skipped when it overlaps the one taken right before it)
Matches(text, s) ==
    { i \in 1..Len(text) :
        /\ StartsAt(text, s, i)
        /\ Len(s) = 1 \/ RunBefore(text, s, i) % 2 = 0 }

\* text.split(s)
Split(text, s) ==
    IF s = <<>> THEN [i \in 1..Len(text) |-> << text[i] >>]
    ELSE LET starts == Ascending({1} \cup { m + Len(s) : m \in Matches(text, s) })
         IN  [j \in 1..Len(starts) |->
                 SubSeq(text, starts[j],
                        IF j = Len(starts) THEN Len(text)
                        ELSE starts[j + 1] - Len(s) - 1)]

RECURSIVE Join(_, _, _, _)
JoinWithoutSeparator(docs, lo, hi, separator) == Flatten(SubSeq(docs, lo, hi))

\* docs.join(separator) for the documents lo..hi
Join(docs, lo, hi, separator) ==
    IF lo > hi THEN <<>>
    ELSE IF lo = hi THEN docs[lo]
    ELSE Join(docs, lo, (lo + hi) \div 2, separator) \o separator \o
         Join(docs, (lo + hi) \div 2 + 1, hi, separator)

\* joinDocs: the joined and trimmed text; null is written as the empty text,
\* which joinDocs never returns
JoinDocs(docs, separator) == Trim(Join(docs, 1, Len(docs), separator))

RECURSIVE Total(_, _, _)
\* the sum of the lengths of the pieces lo..hi
Total(splits, lo, hi) ==
    IF lo > hi THEN 0
    ELSE IF lo = hi THEN Len(splits[lo])
    ELSE Total(splits, lo, (lo + hi) \div 2) + Total(splits, (lo + hi) \div 2 + 1, hi)

KeepsPoppingWhileBoth(total, len, chunkSize, chunkOverlap) ==
    total > chunkOverlap /\ (total + len > chunkSize /\ total > 0)

\* the condition of the while loop of mergeSplits that shifts pieces out of
\* currentDoc
KeepsPopping(total, len, chunkSize, chunkOverlap) ==
    total > chunkOverlap \/ (total + len > chunkSize /\ total > 0)

PushDoc(docs, doc) == IF doc /= <<>> THEN Append(docs, doc) ELSE docs

RECURSIVE MergeFrom(_, _, _, _, _, _, _)
\* the for loop of mergeSplits from the i-th piece on, currentDoc holding the
\* pieces first..(i - 1): the loop only pushes pieces up to the next piece j
\* at which a document is emitted, where pieces are shifted out from the front
MergeFrom(splits, i, first, separator, chunkSize, chunkOverlap, docs) ==
    LET emitAt == { j \in i..Len(splits) :
                      /\ j > first
                      /\ Total(splits, first, j - 1) + Len(splits[j]) >= chunkSize }
    IN  IF emitAt = {}
        THEN PushDoc(docs, JoinDocs(SubSeq(splits, first, Len(splits)), separator))
        ELSE LET j == Minimum(emitAt)
                 kept == Minimum({ k \in first..j :
                             ~KeepsPopping(Total(splits, k, j - 1), Len(splits[j]),
                                           chunkSize, chunkOverlap) })
             IN  MergeFrom(splits, j + 1, kept, separator, chunkSize, chunkOverlap,
                           PushDoc(docs, JoinDocs(SubSeq(splits, first, j - 1), separator)))

MergeSplits(splits, separator, chunkSize, chunkOverlap) ==
    MergeFrom(splits, 1, 1, separator, chunkSize, chunkOverlap, <<>>)

Separators ==
    << <<"NL", "NL">>, <<"NL">>, <<".">>, <<",">>, <<">">>, <<"<">>, <<" ">>, <<>> >>

RECURSIVE PickSeparator(_, _)
\* the first separator that is empty or occurs in the text
PickSeparator(text, i) ==
    IF i >= Len(Separators) \/ Separators[i] = <<>> \/ TextIncludes(text, Separators[i])
    THEN Separators[i]
    ELSE PickSeparator(text, i + 1)

RECURSIVE SplitText(_, _, _)
RECURSIVE SplitLoop(_, _, _, _, _, _)
\* the loop of splitText over the pieces from the i-th piece on, goodSplits
\* being empty: the pieces up to the next piece j that is not shorter than
\* chunkSize are merged, and that piece is split in turn
SplitLoop(splits, i, separator, chunkSize, chunkOverlap, finalChunks) ==
    LET long == { j \in i..Len(splits) : Len(splits[j]) >= chunkSize }
        last == IF long = {} THEN Len(splits) ELSE Minimum(long) - 1
        merged == IF last >= i
                  THEN finalChunks \o MergeSplits(SubSeq(splits, i, last), separator,
                                                  chunkSize, chunkOverlap)
                  ELSE finalChunks
    IN  IF long = {} THEN merged
        ELSE SplitLoop(splits, last + 2, separator, chunkSize, chunkOverlap,
                       merged \o SplitText(splits[last + 1], chunkSize, chunkOverlap))

\* RecursiveCharacterTextSplitter.splitText
SplitText(text, chunkSize, chunkOverlap) ==
    LET separator == PickSeparator(text, 1)
    IN  SplitLoop(Split(text, separator), 1, separator, chunkSize, chunkOverlap, <<>>)

\* splitter.splitText(prompt)[0] ?? ''
FirstChunk(chunks) == IF chunks = <<>> THEN <<>> ELSE chunks[1]

SliceTextBelow(prompt, n) == SubSeq(prompt, 1, Min(n, Len(prompt)) - 1)

\* prompt.slice(0, n)
SliceText(prompt, n) == SubSeq(prompt, 1, Min(n, Len(prompt)))

FloorCutWhole(prompt) == prompt

\* prompt.slice(0, MinChunkSize)
FloorCut(prompt) == SliceText(prompt, MinChunkSize)

HardCutNothing(prompt, chunkSize) == prompt

\* prompt.slice(0, chunkSize)
HardCut(prompt, chunkSize) == SliceText(prompt, chunkSize)

\* prompt.length - overflowTokens * 3
ChunkSize(prompt, contextSize, r) ==
    Len(prompt) - (TokenCount(prompt, r) - contextSize) * 3

\* trimPrompt(prompt, contextSize) has been called and has not yet returned
NewTrim(prompt, contextSize, r) ==
    [pc |-> "call", text |-> prompt, prompt |-> prompt, contextSize |-> contextSize,
     charsPerToken |-> r,
     hardCut |-> FALSE, chunkCut |-> FALSE, floorCut |-> FALSE, result |-> <<>>,
     again |-> FALSE, first |-> <<>>]

InitTrim ==
    /\ concurrencyEnv = 0
    /\ calls = <<>>
    /\ branches = <<>>
    /\ searches = 0
    /\ http = HttpIdle
    /\ split = SplitIdle
    /\ merge = MergeIdle
    /\ limiter = LimiterIdle
    /\ \E text \in Texts, n \in ContextSizes, r \in 1..MaxCharsPerToken :
          trim = NewTrim(text, n, r)

TrimBecomes(t) ==
    /\ trim' = t
    /\ UNCHANGED <<concurrencyEnv, calls, branches, searches, http, split, merge, limiter>>

TrimReturn(result) == TrimBecomes([trim EXCEPT !.pc = "done", !.result = result])

OverBudget == TokenCount(trim.prompt, trim.charsPerToken) > trim.contextSize

\* if (!prompt) return ''
TrimReturnsEmpty ==
    /\ trim.pc = "call"
    /\ trim.prompt = <<>>
    /\ TrimReturn(<<>>)

\* if (length <= contextSize) return prompt
TrimReturnsPrompt ==
    /\ trim.pc = "call"
    /\ trim.prompt /= <<>>
    /\ ~OverBudget
    /\ TrimReturn(trim.prompt)

\* if (chunkSize < MinChunkSize) return prompt.slice(0, MinChunkSize)
TrimReturnsFloor ==
    /\ trim.pc = "call"
    /\ trim.prompt /= <<>>
    /\ OverBudget
    /\ ChunkSize(trim.prompt, trim.contextSize, trim.charsPerToken) < MinChunkSize
    /\ TrimBecomes([trim EXCEPT !.pc = "done", !.floorCut = TRUE,
                                !.result = FloorCut(trim.prompt)])

\* the splitter is run and trimPrompt calls itself, on the hard slice when the
\* first chunk is as long as the prompt and on the first chunk otherwise
TrimRecurses ==
    /\ trim.pc = "call"
    /\ trim.prompt /= <<>>
    /\ OverBudget
    /\ LET chunkSize == ChunkSize(trim.prompt, trim.contextSize, trim.charsPerToken)
           trimmedPrompt == FirstChunk(SplitText(trim.prompt, chunkSize, 0))
       IN  /\ chunkSize >= MinChunkSize
           /\ IF Len(trimmedPrompt) = Len(trim.prompt)
              THEN TrimBecomes([trim EXCEPT !.prompt = HardCut(trim.prompt, chunkSize),
                                            !.hardCut = TRUE])
              ELSE TrimBecomes([trim EXCEPT !.prompt = trimmedPrompt,
                                            !.chunkCut = TRUE])

\* the caller passes the string returned to trimPrompt once more, with the
\* same context size
TrimCalledAgain ==
    /\ trim.pc = "done"
    /\ ~trim.again
    /\ TrimBecomes([trim EXCEPT !.pc = "call", !.prompt = trim.result,
                                !.again = TRUE, !.first = trim.result])

NextTrim ==
    \/ TrimReturnsEmpty
    \/ TrimReturnsPrompt
    \/ TrimReturnsFloor
    \/ TrimRecurses
    \/ TrimCalledAgain

TrimSpec == InitTrim /\ [][NextTrim]_vars

\* C19: every step of an evaluation of trimPrompt either returns or is a
\* recursive call on a strictly shorter string, and only a string longer than
\* MinChunkSize is trimmed by a recursive call; the number of recursive calls
\* is therefore at most the length of the text, and trimPrompt returns.
C19_TrimTerminates ==
    [][trim.pc = "call" =>
          \/ trim'.pc = "done"
          \/ /\ trim'.pc = "call"
             /\ Len(trim'.prompt) < Len(trim.prompt)
             /\ Len(trim.prompt) > MinChunkSize]_vars

C19_Witness ==
    /\ trim.pc = "done"
    /\ trim.hardCut
    /\ trim.chunkCut
    /\ Len(trim.result) > MinChunkSize

\* C20 as stated: the string returned either has a token count within the
\* budget or has exactly MinChunkSize characters.
C20_BudgetOrExactFloor ==
    trim.pc = "done" =>
        \/ TokenCount(trim.result, trim.charsPerToken) <= trim.contextSize
        \/ Len(trim.result) = MinChunkSize

\* C20 amended: the string returned either has a token count within the budget
\* or is the string cut at the floor, which has exactly MinChunkSize characters
\* when the string that was cut has at least that many and is that whole
\* string, shorter than MinChunkSize, otherwise.
C20_BudgetOrAtMostFloor ==
    trim.pc = "done" =>
        \/ TokenCount(trim.result, trim.charsPerToken) <= trim.contextSize
        \/ /\ trim.floorCut
           /\ Len(trim.prompt) >= MinChunkSize => Len(trim.result) = MinChunkSize
           /\ Len(trim.prompt) < MinChunkSize => trim.result = trim.prompt

C20_Witness ==
    /\ trim.pc = "done"
    /\ TokenCount(trim.result, trim.charsPerToken) > trim.contextSize
    /\ Len(trim.result) < MinChunkSize
    /\ Len(trim.result) > 0

\* C34: the string that trimPrompt returns for the string it has returned,
\* with the same context size, is that string; this holds too when it was
\* cut at the floor of MinChunkSize characters.
C34_TrimIdempotent ==
    (trim.pc = "done" /\ trim.again) => trim.result = trim.first

C34_Witness ==
    /\ trim.pc = "done"
    /\ trim.again
    /\ trim.floorCut
    /\ Len(trim.first) = MinChunkSize
    /\ Len(trim.text) > MinChunkSize
    /\ TokenCount(trim.first, trim.charsPerToken) > trim.contextSize
    /\ trim.result = trim.first

\* s is a leading substring of t
IsPrefix(s, t) == Len(s) <= Len(t) /\ SubSeq(t, 1, Len(s)) = s

\* C21: for a text over budget the string returned by trimPrompt is a prefix
\* of the text whose token count is within the budget; an empty text and a
\* text within budget are returned unchanged.
C21_PrefixWithinBudget ==
    trim.pc = "done" =>
        IF TokenCount(trim.text, trim.charsPerToken) > trim.contextSize
        THEN /\ IsPrefix(trim.result, trim.text)
             /\ TokenCount(trim.result, trim.charsPerToken) <= trim.contextSize
        ELSE trim.result = trim.text

----------------------------------------------------------------------------
(* The splitter as a machine: the constructor, then splitText with its call *)
(* stack, one frame for each call of splitText that has not returned.       *)

\* texts of at most MaxSplitLen characters, configurations up to
\* MaxChunkSize and MaxChunkOverlap, and a call stack of at most MaxCallDepth
MaxSplitLen == 4
MaxChunkSize == 4
MaxChunkOverlap == 3
MaxCallDepth == 6

DefaultChunkSize == 1000
DefaultChunkOverlap == 200

SplitAlphabet == {"a", "b", " ", ".", "NL"}

RECURSIVE TextsOfLength(_)
TextsOfLength(n) ==
    IF n = 0 THEN { <<>> }
    ELSE { Append(t, c) : t \in TextsOfLength(n - 1), c \in SplitAlphabet }

SplitTexts == UNION { TextsOfLength(n) : n \in 0..MaxSplitLen }

\* the fields handed to the constructor; a field may be left out
FieldValues(lo, hi) == {Absent} \cup { Num(v) : v \in lo..hi }

SplitFields == [chunkSize : FieldValues(1, MaxChunkSize), chunkOverlap : FieldValues(0, MaxChunkOverlap)]

\* fields?.x ?? this.x
OrDefault(field, default) == IF field = Absent THEN default ELSE field.value

OverlapAboveChunkSize(chunkOverlap, chunkSize) == chunkOverlap > chunkSize

\* the check of the constructor
OverlapTooLarge(chunkOverlap, chunkSize) == chunkOverlap >= chunkSize

\* new RecursiveCharacterTextSplitter(fields) is about to run, splitText(text)
\* is called on the splitter afterwards
NewSplit(fields, text) ==
    [pc |-> "new", fields |-> fields, text |-> text, chunkSize |-> 0, chunkOverlap |-> 0,
     stack |-> <<>>, calls |-> 0, chunks |-> <<>>]

\* a call of splitText(text) that has chosen its separator and split the text,
\* and is at the piece i of its loop
Frame(text) ==
    [text |-> text, separator |-> PickSeparator(text, 1),
     splits |-> Split(text, PickSeparator(text, 1)), i |-> 1, finalChunks |-> <<>>]

InitSplit ==
    /\ concurrencyEnv = 0
    /\ calls = <<>>
    /\ branches = <<>>
    /\ searches = 0
    /\ http = HttpIdle
    /\ trim = TrimIdle
    /\ merge = MergeIdle
    /\ limiter = LimiterIdle
    /\ \E fields \in SplitFields, text \in SplitTexts : split = NewSplit(fields, text)

SplitBecomes(s) ==
    /\ split' = s
    /\ UNCHANGED <<concurrencyEnv, calls, branches, searches, http, trim, merge, limiter>>

\* the constructor returns the splitter
ConstructorReturns ==
    /\ split.pc = "new"
    /\ LET chunkSize == OrDefault(split.fields.chunkSize, DefaultChunkSize)
           chunkOverlap == OrDefault(split.fields.chunkOverlap, DefaultChunkOverlap)
       IN  /\ ~OverlapTooLarge(chunkOverlap, chunkSize)
           /\ SplitBecomes([split EXCEPT !.pc = "ready", !.chunkSize = chunkSize,
                                         !.chunkOverlap = chunkOverlap])

\* the constructor throws 'Cannot have chunkOverlap >= chunkSize'
ConstructorThrows ==
    /\ split.pc = "new"
    /\ LET chunkSize == OrDefault(split.fields.chunkSize, DefaultChunkSize)
           chunkOverlap == OrDefault(split.fields.chunkOverlap, DefaultChunkOverlap)
       IN  /\ OverlapTooLarge(chunkOverlap, chunkSize)
           /\ SplitBecomes([split EXCEPT !.pc = "failed"])

\* splitText(text) is called on the splitter
SplitTextCalled ==
    /\ split.pc = "ready"
    /\ SplitBecomes([split EXCEPT !.pc = "split", !.stack = << Frame(split.text) >>])

Top == split.stack[Len(split.stack)]

\* the pieces of the running call, from its piece i on, that are not shorter
\* than chunkSize
LongPieces == { j \in Top.i..Len(Top.splits) : Len(Top.splits[j]) >= split.chunkSize }

\* finalChunks after the good pieces i..last of the running call are merged
MergedUpTo(last) ==
    IF last >= Top.i
    THEN Top.finalChunks \o MergeSplits(SubSeq(Top.splits, Top.i, last), Top.separator,
                                        split.chunkSize, split.chunkOverlap)
    ELSE Top.finalChunks

\* the running call reaches a piece that is not shorter than chunkSize: it
\* merges the good pieces before it and calls splitText on it
SplitTextRecurses ==
    /\ split.pc = "split"
    /\ LongPieces /= {}
    /\ Len(split.stack) < MaxCallDepth
    /\ LET j == Minimum(LongPieces)
           n == Len(split.stack)
       IN  SplitBecomes([split EXCEPT
               !.stack = Append([@ EXCEPT ![n].finalChunks = MergedUpTo(j - 1), ![n].i = j],
                                Frame(Top.splits[j])),
               !.calls = @ + 1])

\* the call stack is exhausted: the call throws a RangeError
SplitTextOverflows ==
    /\ split.pc = "split"
    /\ LongPieces /= {}
    /\ Len(split.stack) = MaxCallDepth
    /\ SplitBecomes([split EXCEPT !.pc = "overflow", !.stack = <<>>])

\* the running call has no piece left that it must split: it merges the good
\* pieces left and returns its chunks, to the call of splitText that made it
\* or to the caller of the splitter
SplitTextReturns ==
    /\ split.pc = "split"
    /\ LongPieces = {}
    /\ LET n == Len(split.stack)
           finalChunks == MergedUpTo(Len(Top.splits))
       IN  IF n = 1
           THEN SplitBecomes([split EXCEPT !.pc = "done", !.stack = <<>>,
                                           !.chunks = finalChunks])
           ELSE SplitBecomes([split EXCEPT
                    !.stack = [SubSeq(@, 1, n - 1) EXCEPT
                                  ![n - 1].finalChunks = @ \o finalChunks,
                                  ![n - 1].i = @ + 1]])

NextSplit ==
    \/ ConstructorReturns
    \/ ConstructorThrows
    \/ SplitTextCalled
    \/ SplitTextRecurses
    \/ SplitTextOverflows
    \/ SplitTextReturns

SplitSpec == InitSplit /\ [][NextSplit]_vars

----------------------------------------------------------------------------
(* Properties of the splitter.                                              *)

Chunks == { split.chunks[k] : k \in 1..Len(split.chunks) }

HasContent(text) == \E i \in 1..Len(text) : text[i] \notin Whitespace

\* the text without its leading and trailing blanks and newlines
Stripped(text) ==
    LET kept == { i \in 1..Len(text) : text[i] \notin {" ", "NL"} }
    IN  IF kept = {} THEN <<>>
        ELSE SubSeq(text, CHOOSE i \in kept : \A j \in kept : i <= j,
                          CHOOSE i \in kept : \A j \in kept : i >= j)

\* C22 as stated: for a text shorter than chunkSize, splitText returns the
\* one-element list of the trimmed text.
C22_SmallTextOneChunk ==
    (split.pc = "done" /\ Len(split.text) < split.chunkSize) =>
        split.chunks = << Stripped(split.text) >>

\* C22 amended: for a text shorter than chunkSize, splitText returns the
\* one-element list of the trimmed text when the text has a character that is
\* not whitespace, and the empty list otherwise.
C22_SmallTextOneChunkOrNone ==
    (split.pc = "done" /\ Len(split.text) < split.chunkSize) =>
        split.chunks = IF HasContent(split.text) THEN << Stripped(split.text) >> ELSE <<>>

C22_Witness ==
    /\ split.pc = "done"
    /\ split.chunkSize = MaxChunkSize
    /\ Len(split.text) = MaxChunkSize - 1
    /\ TextIncludes(split.text, <<".">>)
    /\ split.text[1] = " "
    /\ Len(split.chunks) = 1
    /\ Len(split.chunks[1]) = 2

\* C23: the constructor fails, and no splitter exists to be run, when
\* chunkOverlap >= chunkSize; it returns a splitter when
\* 0 <= chunkOverlap < chunkSize.
C23_ConstructorCheck ==
    LET chunkSize == IF split.fields.chunkSize = Absent THEN DefaultChunkSize
                     ELSE split.fields.chunkSize.value
        chunkOverlap == IF split.fields.chunkOverlap = Absent THEN DefaultChunkOverlap
                        ELSE split.fields.chunkOverlap.value
    IN  split.pc /= "new" =>
            /\ chunkOverlap >= chunkSize => split.pc = "failed"
            /\ (0 <= chunkOverlap /\ chunkOverlap < chunkSize) =>
                  /\ split.pc /= "failed"
                  /\ split.chunkSize = chunkSize
                  /\ split.chunkOverlap = chunkOverlap

C23_Witness ==
    /\ split.pc = "failed"
    /\ split.fields.chunkSize /= Absent
    /\ split.fields.chunkOverlap /= Absent
    /\ split.fields.chunkOverlap.value = split.fields.chunkSize.value
    /\ split.stack = <<>>
    /\ split.chunks = <<>>

NonWhitespace(text) == SelectSeq(text, LAMBDA c : c \notin {" ", "NL"})

\* C27: with chunkOverlap = 0 the chunks of splitText, one after the other,
\* hold the characters of the text that are not whitespace, each once and in
\* the order of the text.
C27_NothingButWhitespaceLost ==
    (split.pc = "done" /\ split.chunkOverlap = 0) =>
        NonWhitespace(Flatten(split.chunks)) = NonWhitespace(split.text)

IsSubstring(s, text) == \E i \in 1..Len(text) : StartsAt(text, s, i)

\* C28: every chunk returned by splitText is a non-empty contiguous substring
\* of the text that neither begins nor ends with whitespace.
C28_ChunksTrimmedSubstrings ==
    split.pc = "done" =>
        \A chunk \in Chunks :
            /\ chunk /= <<>>
            /\ chunk[1] \notin {" ", "NL"}
            /\ chunk[Len(chunk)] \notin {" ", "NL"}
            /\ IsSubstring(chunk, split.text)

C28_Witness ==
    /\ split.pc = "done"
    /\ split.calls > 0
    /\ Len(split.chunks) = 2
    /\ split.text[1] = " "
    /\ split.text[Len(split.text)] = "NL"
    /\ \E chunk \in Chunks : Len(chunk) > 1

\* C29: every recursive call of splitText is made on a strictly shorter string
\* than the call that makes it, and no call of splitText exhausts the stack.
C29_SplitTextTerminates ==
    [][split.pc = "split" =>
          /\ split'.pc /= "overflow"
          /\ Len(split'.stack) > Len(split.stack) =>
                 Len(split'.stack[Len(split'.stack)].text) < Len(Top.text)]_vars

----------------------------------------------------------------------------
(* mergeSplits as a machine: one step for each piece pushed, each document  *)
(* emitted and each piece shifted out of the window.                        *)

MaxPieces == 4

MergePieces == { <<>>, <<"a">>, <<" ">>, <<"a", "b">> }

RECURSIVE SplitsOfLength(_)
SplitsOfLength(n) ==
    IF n = 0 THEN { <<>> }
    ELSE { Append(s, d) : s \in SplitsOfLength(n - 1), d \in MergePieces }

MergeInputs == UNION { SplitsOfLength(n) : n \in 0..MaxPieces }

MergeSeparators == { <<>>, <<" ">> }

\* mergeSplits(splits, separator) is called on a splitter: currentDoc holds
\* the positions in splits of the pieces of the window, windows the first and
\* last position of the window of every document pushed so far
NewMerge(splits, separator, chunkSize, chunkOverlap) ==
    [pc |-> "loop", splits |-> splits, separator |-> separator,
     chunkSize |-> chunkSize, chunkOverlap |-> chunkOverlap,
     i |-> 1, currentDoc |-> <<>>, total |-> 0, docs |-> <<>>,
     windows |-> <<>>, popped |-> 0]

InitMerge ==
    /\ concurrencyEnv = 0
    /\ calls = <<>>
    /\ branches = <<>>
    /\ searches = 0
    /\ http = HttpIdle
    /\ trim = TrimIdle
    /\ split = SplitIdle
    /\ limiter = LimiterIdle
    /\ \E splits \in MergeInputs, separator \in MergeSeparators,
          chunkSize \in 1..MaxChunkSize, chunkOverlap \in 0..MaxChunkOverlap :
          /\ ~OverlapTooLarge(chunkOverlap, chunkSize)
          /\ merge = NewMerge(splits, separator, chunkSize, chunkOverlap)

MergeBecomes(m) ==
    /\ merge' = m
    /\ UNCHANGED <<concurrencyEnv, calls, branches, searches, http, trim, split,
                   limiter>>

\* the pieces of the window
WindowPieces == [k \in 1..Len(merge.currentDoc) |-> merge.splits[merge.currentDoc[k]]]

\* const _len = d.length
PieceLen == Len(merge.splits[merge.i])

\* total + _len >= this.chunkSize, with currentDoc.length > 0
MustEmit == merge.total + PieceLen >= merge.chunkSize /\ Len(merge.currentDoc) > 0

\* docs after joinDocs of the window, pushed when it is not null
MergePush ==
    [merge EXCEPT
        !.docs = PushDoc(@, JoinDocs(WindowPieces, merge.separator)),
        !.windows = IF JoinDocs(WindowPieces, merge.separator) /= <<>>
                    THEN Append(@, << merge.currentDoc[1],
                                      merge.currentDoc[Len(merge.currentDoc)] >>)
                    ELSE @]

MergeAppendUncounted(m) ==
    [m EXCEPT !.currentDoc = Append(@, m.i), !.i = @ + 1, !.pc = "loop"]

\* currentDoc.push(d); total += _len
MergeAppend(m) ==
    [m EXCEPT !.currentDoc = Append(@, m.i), !.total = @ + Len(m.splits[m.i]),
              !.i = @ + 1, !.pc = "loop"]

ShiftNothing(currentDoc) == currentDoc

\* currentDoc.shift()
Shift(currentDoc) == Tail(currentDoc)

\* an iteration that emits nothing: the piece is pushed on the window
MergePushes ==
    /\ merge.pc = "loop"
    /\ merge.i <= Len(merge.splits)
    /\ ~MustEmit
    /\ MergeBecomes(MergeAppend(merge))

\* an iteration that emits the window and enters the while loop
MergeEmits ==
    /\ merge.pc = "loop"
    /\ merge.i <= Len(merge.splits)
    /\ MustEmit
    /\ MergeBecomes([MergePush EXCEPT !.pc = "shrink", !.popped = 0])

\* an iteration of the while loop: the first piece leaves the window
MergePops ==
    /\ merge.pc = "shrink"
    /\ KeepsPopping(merge.total, PieceLen, merge.chunkSize, merge.chunkOverlap)
    /\ MergeBecomes([merge EXCEPT
           !.total = @ - Len(merge.splits[merge.currentDoc[1]]),
           !.currentDoc = Shift(@),
           !.popped = @ + 1])

\* the while loop ends and the piece is pushed on the window
MergeKeeps ==
    /\ merge.pc = "shrink"
    /\ ~KeepsPopping(merge.total, PieceLen, merge.chunkSize, merge.chunkOverlap)
    /\ MergeBecomes(MergeAppend(merge))

\* after the last piece: the window left is emitted and mergeSplits returns
MergeReturns ==
    /\ merge.pc = "loop"
    /\ merge.i > Len(merge.splits)
    /\ MergeBecomes([(IF Len(merge.currentDoc) > 0 THEN MergePush ELSE merge)
                        EXCEPT !.pc = "done"])

NextMerge ==
    \/ MergePushes
    \/ MergeEmits
    \/ MergePops
    \/ MergeKeeps
    \/ MergeReturns

MergeSpec == InitMerge /\ [][NextMerge]_vars

IsPop == merge.pc = "shrink" /\ merge'.pc = "shrink"

IsKeep == merge.pc = "shrink" /\ merge'.pc = "loop"

\* C25 as stated: after the window is emitted, leading pieces are dropped
\* until the window's total is below chunkOverlap or the new piece no longer
\* overflows chunkSize, whichever comes first (no piece is dropped once one of
\* the two holds), and the new piece is then appended.
C25_ShrinkStopsOnEither ==
    [][/\ IsPop =>
             ~(\/ merge.total < merge.chunkOverlap
               \/ merge.total + PieceLen <= merge.chunkSize)
       /\ IsKeep =>
             /\ merge'.currentDoc = Append(merge.currentDoc, merge.i)
             /\ merge'.total = merge.total + PieceLen]_vars

\* C25 amended: after the window is emitted, a leading piece is dropped as
\* long as the window's total is above chunkOverlap, or the new piece would
\* exceed chunkSize and the window is not empty; the shrinking ends only when
\* the total is at most chunkOverlap and the new piece fits or the window is
\* empty, and the new piece is then appended.
C25_ShrinkStopsOnBoth ==
    [][/\ IsPop =>
             /\ \/ merge.total > merge.chunkOverlap
                \/ (merge.total + PieceLen > merge.chunkSize /\ merge.total > 0)
             /\ merge'.currentDoc = Tail(merge.currentDoc)
             /\ merge'.total = merge.total - Len(merge.splits[merge.currentDoc[1]])
       /\ IsKeep =>
             /\ merge.total <= merge.chunkOverlap
             /\ merge.total + PieceLen <= merge.chunkSize \/ merge.total = 0
             /\ merge'.currentDoc = Append(merge.currentDoc, merge.i)
             /\ merge'.total = merge.total + PieceLen]_vars

C25_Witness ==
    /\ merge.pc = "shrink"
    /\ merge.popped >= 1
    /\ merge.chunkOverlap >= 1
    /\ merge.total > merge.chunkOverlap
    /\ merge.total + PieceLen <= merge.chunkSize

\* C26: the pieces that the windows of two documents pushed one after the
\* other have in common have a total length of at most chunkOverlap, and are
\* all empty when chunkOverlap = 0.
C26_OverlapBounded ==
    \A k \in 1..(Len(merge.windows) - 1) :
        LET carried == merge.windows[k + 1][1]..merge.windows[k][2]
        IN  /\ Total(merge.splits, merge.windows[k + 1][1], merge.windows[k][2])
                  <= merge.chunkOverlap
            /\ merge.chunkOverlap = 0 => \A j \in carried : merge.splits[j] = <<>>

C26_Witness ==
    /\ merge.pc = "done"
    /\ Len(merge.windows) = 3
    /\ merge.chunkOverlap = 2
    /\ \A k \in 1..2 :
          Total(merge.splits, merge.windows[k + 1][1], merge.windows[k][2]) = 2

PiecesShorterThanChunkSize ==
    \A j \in 1..Len(merge.splits) : Len(merge.splits[j]) < merge.chunkSize

\* C39: when every piece is shorter than chunkSize, the running total is the
\* sum of the lengths of the pieces in the window and is at most chunkSize
\* (so the warning for total > chunkSize is not reached), and the while loop
\* shifts a piece out only of a window that is not empty.
C39_TotalIsWindowLength ==
    PiecesShorterThanChunkSize =>
        /\ merge.total = Total(WindowPieces, 1, Len(WindowPieces))
        /\ merge.total <= merge.chunkSize
        /\ (/\ merge.pc = "shrink"
            /\ KeepsPopping(merge.total, PieceLen, merge.chunkSize, merge.chunkOverlap))
           => Len(merge.currentDoc) > 0

C39_Witness ==
    /\ PiecesShorterThanChunkSize
    /\ merge.pc = "shrink"
    /\ merge.popped >= 1
    /\ Len(merge.currentDoc) = 1
    /\ merge.total = merge.chunkSize - 1
    /\ KeepsPopping(merge.total, PieceLen, merge.chunkSize, merge.chunkOverlap)

----------------------------------------------------------------------------
(* The orchestrator on its deepest tree: a root call of breadth MaxBreadth  *)
(* and depth MaxDepth, whose calls plan at most MaxDeepBranches queries in  *)
(* all.                                                                     *)

MaxDeepBranches == 4

InitDeep ==
    /\ concurrencyEnv \in 0..MaxEnvConcurrency
    /\ calls = (<<>> :> NewCall([researchGoal |-> "topic", followUpQuestions |-> <<>>],
                                  MaxBreadth, MaxDepth, <<>>, <<>>))
    /\ branches = <<>>
    /\ searches = 0
    /\ http = HttpIdle
    /\ trim = TrimIdle
    /\ split = SplitIdle
    /\ merge = MergeIdle
    /\ limiter = LimiterIdle

\* the number of branches after the call p has submitted these queries
PlannedBranches(p, llmQueries) ==
    Cardinality(DOMAIN branches) + Len(Slice(llmQueries, calls[p].breadth))

NextDeep ==
    \/ \E p \in DOMAIN calls, q \in LlmQueryLists :
          PlannedBranches(p, q) <= MaxDeepBranches /\ PlannerReturns(p, q)
    \/ \E p \in DOMAIN calls : PlannerFails(p)
    \/ \E b \in DOMAIN branches, r \in SearchResponses : SearchReturns(b, r)
    \/ \E b \in DOMAIN branches : SearchFails(b)
    \/ \E b \in DOMAIN branches, r \in LlmDistillations : DistillReturns(b, r)
    \/ \E b \in DOMAIN branches : DistillFails(b)

SpecDeep == InitDeep /\ [][NextDeep]_vars

IsProperPrefix(p, b) == Len(p) < Len(b) /\ SubSeq(b, 1, Len(p)) = p

\* the branches and calls below the branch b that have not returned yet
LiveBelow(b) ==
    { d \in DOMAIN branches :
          IsProperPrefix(b, d) /\ branches[d].state \in {"queued", "search", "distill", "recurse"} }
    \cup { c \in DOMAIN calls :
          IsProperPrefix(b, c) /\ calls[c].state \in {"planning", "running"} }

Started(b) == branches[b].state /= "queued"

Returned(b) == branches[b].state \in {"fulfilled", "rejected"}

\* C30: of the branches of one call at most ConcurrencyLimit have started and
\* not returned, and a branch that has returned (and so has given its slot to
\* the next queued branch) has nothing left running below it.
C30_SlotHeldForSubtree ==
    /\ \A p \in DOMAIN calls :
          Cardinality({ b \in BranchesOf(Cur, p) : Started(b) /\ ~Returned(b) })
              <= ConcurrencyLimit
    /\ \A b \in DOMAIN branches : Returned(b) => LiveBelow(b) = {}

----------------------------------------------------------------------------
(* The rate limiter: one RateLimiter with its middleware, its clean-up      *)
(* timer and the clock.  Beside the limiter runs a reference limiter that   *)
(* is given the same requests at the same times and is never cleaned up.    *)

\* the clock advances by multiples of TimeStep milliseconds, MaxTicks times
TimeStep == 500
MaxTicks == 3
MaxWindowSteps == 2
MaxMaxRequests == 2

MsPerSecond == 1000

\* Number(process.env.…) || default: any number but 0 and NaN
MaxRequestsValues == { -1 } \cup 1..MaxMaxRequests

WindowMsValues == { n * TimeStep : n \in 1..MaxWindowSteps }

Loopback == <<":", ":", "1">>

UnknownIp == <<"u", "n", "k", "n", "o", "w", "n">>

Paths == { <<"/", "r">>, <<"/", "h">> }

\* a header or property that is undefined or the empty string
Falsy == <<>>

\* the requests reaching the middleware: req.ip, req.connection?.remoteAddress
\* and req.path
Requests ==
    { [ip |-> Loopback, remoteAddress |-> Falsy, path |-> path] : path \in Paths }
        \cup { [ip |-> Falsy, remoteAddress |-> Falsy, path |-> <<"/", "r">>] }

\* req.ip || req.connection?.remoteAddress || 'unknown'
ClientIp(req) ==
    IF req.ip /= Falsy THEN req.ip
    ELSE IF req.remoteAddress /= Falsy THEN req.remoteAddress
    ELSE UnknownIp

GetKeyIpOnly(ip, endpoint) == ip

\* endpoint ? `${ip}:${endpoint}` : ip
GetKey(ip, endpoint) ==
    IF endpoint /= Falsy THEN ip \o <<":">> \o endpoint ELSE ip

CleanupExpiredAtReset(now, entry) == now >= entry.resetTime

\* now > entry.resetTime in cleanup
CleanupExpired(now, entry) == now > entry.resetTime

WindowExpiredAtReset(now, entry) == now >= entry.resetTime

\* now > entry.resetTime in checkLimit
WindowExpired(now, entry) == now > entry.resetTime

ExhaustedAbove(entry, maxRequests) == entry.count > maxRequests

\* entry.count >= this.maxRequests
Exhausted(entry, maxRequests) == entry.count >= maxRequests

\* this.store.set(key, entry)
StoreSet(store, key, entry) ==
    [k \in DOMAIN store \cup {key} |-> IF k = key THEN entry ELSE store[k]]

\* this.store.get(key), as the set of the entries found
StoreGet(store, key) == { store[k] : k \in DOMAIN store \cap {key} }

\* cleanup on a store
Cleanup(store, now) ==
    [k \in { x \in DOMAIN store : ~CleanupExpired(now, store[x]) } |-> store[k]]

\* checkLimit on a store: the store afterwards and the value returned
CheckLimit(store, key, now, maxRequests, windowMs) ==
    IF key \notin DOMAIN store \/ WindowExpired(now, store[key])
    THEN [store  |-> StoreSet(store, key, [count |-> 1, resetTime |-> now + windowMs]),
          result |-> [allowed |-> TRUE, remaining |-> maxRequests - 1,
                      resetTime |-> now + windowMs]]
    ELSE IF Exhausted(store[key], maxRequests)
    THEN [store  |-> store,
          result |-> [allowed |-> FALSE, remaining |-> 0,
                      resetTime |-> store[key].resetTime]]
    ELSE [store  |-> StoreSet(store, key, [store[key] EXCEPT !.count = @ + 1]),
          result |-> [allowed |-> TRUE,
                      remaining |-> maxRequests - (store[key].count + 1),
                      resetTime |-> store[key].resetTime]]

\* Math.ceil(ms / 1000) for ms >= 0
CeilSeconds(ms) == (ms + MsPerSecond - 1) \div MsPerSecond

\* the headers set and the answer of the middleware
Answer(result, now, maxRequests) ==
    LET headers == [limit     |-> maxRequests,
                    remaining |-> result.remaining,
                    reset     |-> result.resetTime \div MsPerSecond]
    IN  IF result.allowed
        THEN [headers |-> headers, status |-> "next"]
        ELSE [headers |-> headers, status |-> "429",
              retryAfter |-> CeilSeconds(result.resetTime - now)]

\* the window of a key as an observer counts it: it starts with the first
\* request after the end of the window before, and granted is the number of
\* requests allowed in it
Observe(windows, key, now, windowMs, allowed) ==
    LET granted == IF allowed THEN 1 ELSE 0
    IN  IF key \notin DOMAIN windows \/ now > windows[key].start + windowMs
        THEN StoreSet(windows, key, [start |-> now, granted |-> granted])
        ELSE StoreSet(windows, key, [windows[key] EXCEPT !.granted = @ + granted])

NewLimiter(maxRequests, windowMs) ==
    [pc |-> "serving", maxRequests |-> maxRequests, windowMs |-> windowMs,
     now |-> 0, store |-> <<>>, reference |-> <<>>, windows |-> <<>>, last |-> <<>>]

InitLimiter ==
    /\ concurrencyEnv = 0
    /\ calls = <<>>
    /\ branches = <<>>
    /\ searches = 0
    /\ http = HttpIdle
    /\ trim = TrimIdle
    /\ split = SplitIdle
    /\ merge = MergeIdle
    /\ \E maxRequests \in MaxRequestsValues, windowMs \in WindowMsValues :
          limiter = NewLimiter(maxRequests, windowMs)

LimiterBecomes(l) ==
    /\ limiter' = l
    /\ UNCHANGED <<concurrencyEnv, calls, branches, searches, http, trim, split, merge>>

\* Date.now() has advanced
ClockTicks(steps) ==
    /\ limiter.pc = "serving"
    /\ limiter.now + steps * TimeStep <= MaxTicks * TimeStep
    /\ LimiterBecomes([limiter EXCEPT !.now = @ + steps * TimeStep])

\* the interval timer of the constructor fires
CleanupRuns ==
    /\ limiter.pc = "serving"
    /\ LimiterBecomes([limiter EXCEPT !.store = Cleanup(@, limiter.now)])

\* a request passes through the middleware
Middleware(req) ==
    /\ limiter.pc = "serving"
    /\ LET ip       == ClientIp(req)
           key      == GetKey(ip, req.path)
           checked  == CheckLimit(limiter.store, key, limiter.now,
                                  limiter.maxRequests, limiter.windowMs)
           referred == CheckLimit(limiter.reference, key, limiter.now,
                                  limiter.maxRequests, limiter.windowMs)
       IN  LimiterBecomes([limiter EXCEPT
               !.store     = checked.store,
               !.reference = referred.store,
               !.windows   = Observe(@, key, limiter.now, limiter.windowMs,
                                     checked.result.allowed),
               !.last      = << [ip |-> ip, endpoint |-> req.path, key |-> key,
                                 at |-> limiter.now,
                                 before |-> StoreGet(limiter.store, key),
                                 cleaned |-> /\ key \notin DOMAIN limiter.store
                                             /\ key \in DOMAIN limiter.reference,
                                 result |-> checked.result,
                                 reference |-> referred.result,
                                 answer |-> Answer(checked.result, limiter.now,
                                                   limiter.maxRequests)] >>])

NextLimiter ==
    \/ \E steps \in 1..MaxWindowSteps : ClockTicks(steps)
    \/ CleanupRuns
    \/ \E req \in Requests : Middleware(req)

LimiterSpec == InitLimiter /\ [][NextLimiter]_vars

----------------------------------------------------------------------------
(* Properties of the rate limiter.                                         *)

Last == limiter.last[1]

Served == limiter.pc = "serving" /\ limiter.last /= <<>>

EntryOf(store, req) == StoreGet(store, GetKey(ClientIp(req), req.path))

\* C36: a request that is denied leaves the store as it was, and a request
\* changes no entry but the one of its own address and endpoint.
C36_DeniedRequestChangesNothing ==
    [][\A req \in Requests :
          Middleware(req) =>
              /\ ~limiter'.last[1].result.allowed => limiter'.store = limiter.store
              /\ \A other \in Requests \ {req} :
                    EntryOf(limiter'.store, other) = EntryOf(limiter.store, other)]_vars

C36_Witness ==
    /\ Served
    /\ ~Last.result.allowed
    /\ Last.key \in DOMAIN limiter.store
    /\ Last.before = { limiter.store[Last.key] }
    /\ Cardinality(DOMAIN limiter.store) >= 2

\* C37: a request for a key whose entry has a resetTime before the current
\* time is allowed, however many requests the entry has counted, and leaves
\* an entry with count 1 and resetTime = now + windowMs; a request at the
\* resetTime itself is handled within the old window: the resetTime stays,
\* and the request is denied when the entry is exhausted and counted
\* otherwise.
C37_ExpiredWindowReopens ==
    [][\A req \in Requests :
          Middleware(req) =>
              LET key == GetKey(ClientIp(req), req.path)
                  now == limiter.now
              IN  \A entry \in StoreGet(limiter.store, key) :
                      /\ now > entry.resetTime =>
                             /\ limiter'.last[1].result.allowed
                             /\ limiter'.store[key] =
                                    [count |-> 1, resetTime |-> now + limiter.windowMs]
                      /\ now = entry.resetTime =>
                             /\ limiter'.store[key].resetTime = entry.resetTime
                             /\ limiter'.last[1].result.allowed
                                    = (entry.count < limiter.maxRequests)
                             /\ limiter'.store[key].count =
                                    IF entry.count < limiter.maxRequests
                                    THEN entry.count + 1 ELSE entry.count]_vars

C37_Witness ==
    /\ Served
    /\ limiter.maxRequests >= 1
    /\ \E entry \in Last.before :
          /\ entry.count >= limiter.maxRequests
          /\ Last.at > entry.resetTime
    /\ \E key \in DOMAIN limiter.store :
          /\ key /= Last.key
          /\ limiter.store[key].count >= limiter.maxRequests
          /\ limiter.store[key].resetTime = limiter.now
    /\ Last.result.allowed
    /\ limiter.store[Last.key] = [count |-> 1, resetTime |-> Last.at + limiter.windowMs]

\* C38: cleanup removes only entries whose resetTime is before the current
\* time and leaves the others as they are, and every result of checkLimit
\* is the result of the reference limiter, which has answered the same
\* requests at the same times and has never been cleaned up.
C38_CleanupUnobservable ==
    [][/\ CleanupRuns =>
             \A key \in DOMAIN limiter.store :
                 IF limiter.now > limiter.store[key].resetTime
                 THEN key \notin DOMAIN limiter'.store
                 ELSE /\ key \in DOMAIN limiter'.store
                      /\ limiter'.store[key] = limiter.store[key]
       /\ limiter'.last /= <<>> =>
             limiter'.last[1].result = limiter'.last[1].reference]_vars

C38_Witness ==
    /\ Served
    /\ Last.cleaned
    /\ Last.result = Last.reference
    /\ Last.result.allowed
    /\ DOMAIN limiter.store /= DOMAIN limiter.reference

============================================================================
